---- MODULE Spec2Model ----
(***************************************************************************)
(* A model of sra_fetch_metadata.py: the XML-to-dict normalizer            *)
(* (XmlDictConfig / XmlListConfig / parse_xml), the row printer            *)
(* (print_experiment_csv) and the paginated pipeline of main().            *)
(*                                                                         *)
(* Three specifications share the module:                                  *)
(*   Spec     the run of main() against a nondeterministic server;         *)
(*   SpecXml  parse_xml applied to XML trees drawn from a bounded set;     *)
(*   SpecCsv  print_experiment_csv applied to records from a bounded set.  *)
(***************************************************************************)
EXTENDS Integers, Sequences, FiniteSets, TLC

VARIABLES
    pc,                     \* position of main(): see PcValues
    max_samples,            \* args.max_samples
    project_query_webenv,   \* main: project_query_webenv (None or a string)
    biosample_data,         \* main: biosample_data (None or the decoded JSON)
    experiments,            \* main: experiments, the accumulator
    page,                   \* 1-based index of the current element of intervals
    uid_idx,                \* 1-based index of the current uid of the inner loop
    requests,               \* the esummary requests issued so far
    stdout,                 \* everything printed so far
    error,                  \* the uncaught exception that ended the run: name and line
    errorAt,                \* first page whose esummary response was an error (0: none)
    xml_root,               \* SpecXml: the element handed to parse_xml
    parsed_xml,             \* SpecXml: the value parse_xml returned
    e,                      \* SpecCsv: the record handed to print_experiment_csv
    printed                 \* SpecCsv: what print_experiment_csv printed / raised

vars == <<pc, max_samples, project_query_webenv, biosample_data, experiments,
          page, uid_idx, requests, stdout, error, errorAt,
          xml_root, parsed_xml, e, printed>>

-----------------------------------------------------------------------------
(* Python values.                                                          *)
(* A value held in the dicts and lists the normalizer builds is one of     *)
(*   None, a str, a dict (insertion-ordered pairs <<key, value>>), a list. *)

PyNone      == [kind |-> "None",   text |-> "", map |-> <<>>, items |-> <<>>]
PyStr(s)    == [kind |-> "str",    text |-> s,  map |-> <<>>, items |-> <<>>]
PyDict(m)   == [kind |-> "dict",   text |-> "", map |-> m,    items |-> <<>>]
PyList(l)   == [kind |-> "list",   text |-> "", map |-> <<>>, items |-> l]

\* `k in d`
HasKey(m, k) == \E i \in 1..Len(m) : m[i][1] = k

\* `d[k]` for a key that is present
Lookup(m, k) == m[CHOOSE i \in 1..Len(m) : m[i][1] = k][2]

Keys(m) == {m[i][1] : i \in 1..Len(m)}

\* DictSet gone wrong, for C9: a key already present keeps its first value.
DictSetKeepFirst(m, k, v) ==
    IF HasKey(m, k) THEN m ELSE Append(m, <<k, v>>)

\* `d.update({k: v})`: the last write to a key wins.
DictSet(m, k, v) ==
    IF HasKey(m, k)
    THEN [i \in 1..Len(m) |-> IF m[i][1] = k THEN <<k, v>> ELSE m[i]]
    ELSE Append(m, <<k, v>>)

\* `d.update(other)`
RECURSIVE DictUpdate(_, _)
DictUpdate(m, other) ==
    IF other = <<>> THEN m
    ELSE DictUpdate(DictSet(m, Head(other)[1], Head(other)[2]), Tail(other))

-----------------------------------------------------------------------------
(* XML elements as ElementTree gives them: tag, attributes (element.items())*)
(* text (element.text; "" stands for None, which ElementTree gives for an   *)
(* element without text) and the child elements in document order.          *)

El(tag, attrs, text, kids) ==
    [tag |-> tag, attrs |-> attrs, text |-> text, kids |-> kids]

Leaf(tag, text)   == El(tag, <<>>, text, <<>>)
Empty(tag, attrs) == El(tag, attrs, "", <<>>)

\* element.text as a Python value
TextValue(t) == IF t = "" THEN PyNone ELSE PyStr(t)

\* dict(element.items())
AttrDict(element) ==
    [i \in 1..Len(element.attrs) |->
        <<element.attrs[i][1], PyStr(element.attrs[i][2])>>]

\* `len(element) == 1 or element[0].tag != element[1].tag`, for an element
\* that has children
DictShape(element) ==
    \/ Len(element.kids) = 1
    \/ element.kids[1].tag /= element.kids[2].tag

RECURSIVE XmlDictConfig(_), XmlListConfig(_), ChildValue(_),
          DictChildren(_, _, _), ListChildren(_, _, _)

\* XmlListConfig.__init__: the loop body, for element number i of aList
ListChildren(kids, i, self) ==
    IF i > Len(kids) THEN self
    ELSE LET element == kids[i]
             item == IF Len(element.kids) = 0
                     THEN PyDict(XmlDictConfig(element))
                     ELSE IF DictShape(element)
                     THEN PyDict(XmlDictConfig(element))
                     ELSE PyList(XmlListConfig(element))
         IN  ListChildren(kids, i + 1, Append(self, item))

XmlListConfig(aList) == ListChildren(aList.kids, 1, <<>>)

\* XmlDictConfig.__init__, lines 52-77: the value stored under element.tag
ChildValue(element) ==
    IF Len(element.kids) > 0
    THEN LET aDict == IF DictShape(element)
                      THEN XmlDictConfig(element)
                      ELSE << <<element.kids[1].tag,
                                PyList(XmlListConfig(element))>> >>
         IN  PyDict(DictUpdate(aDict, AttrDict(element)))
    ELSE IF Len(element.attrs) > 0
    THEN PyDict(AttrDict(element))
    ELSE TextValue(element.text)

\* XmlDictConfig.__init__: the loop over the children of parent_element
DictChildren(kids, i, self) ==
    IF i > Len(kids) THEN self
    ELSE DictChildren(kids, i + 1,
                      DictSet(self, kids[i].tag, ChildValue(kids[i])))

\* XmlDictConfig.__init__: the attributes first, then the children
XmlDictConfig(parent_element) ==
    DictChildren(parent_element.kids, 1, AttrDict(parent_element))

\* parse_xml, given the root ElementTree.fromstring returns
parse_xml(root) == PyDict(XmlDictConfig(root))

\* '<root>' + fragment + '</root>'
WrapRoot(fragment) == El("root", <<>>, "", fragment)

-----------------------------------------------------------------------------
(* print_experiment_csv.                                                   *)

\* The outcome of evaluating an expression: the value, or the exception raised.
Ok(v)      == [exc |-> "", val |-> v]
Raise(x)   == [exc |-> x,  val |-> PyNone]

\* `v[k]` for a str key k: KeyError on a dict without the key, TypeError on
\* None, a str or a list
Subscript(v, k) ==
    IF v.kind = "dict"
    THEN IF HasKey(v.map, k) THEN Ok(Lookup(v.map, k)) ELSE Raise("KeyError")
    ELSE Raise("TypeError")

\* `v[k1][k2]...`
RECURSIVE Path(_, _)
Path(v, ks) ==
    IF ks = <<>> THEN Ok(v)
    ELSE LET r == Subscript(v, Head(ks))
         IN  IF r.exc /= "" THEN r ELSE Path(r.val, Tail(ks))

\* ','.join(l) for a list of str
RECURSIVE Join(_)
Join(l) ==
    IF l = <<>> THEN ""
    ELSE IF Len(l) = 1 THEN l[1]
    ELSE l[1] \o "," \o Join(Tail(l))

\* The experiment-level paths of a row, lines 91-108, in order
ExperimentPaths ==
    << <<"Bioproject">>,
       <<"Experiment", "acc">>,
       <<"Experiment", "name">>,
       <<"Organism", "ScientificName">>,
       <<"Instrument", "ILLUMINA">>,
       <<"Submitter", "center_name">>,
       <<"Study", "acc">>,
       <<"Study", "name">>,
       <<"Sample", "acc">>,
       <<"Sample", "name">>,
       <<"Summary", "Statistics", "total_size">>,
       <<"Summary", "Statistics", "total_runs">>,
       <<"Summary", "Statistics", "total_spots">>,
       <<"Summary", "Statistics", "total_bases">>,
       <<"Library_descriptor", "LIBRARY_NAME">>,
       <<"Library_descriptor", "LIBRARY_STRATEGY">>,
       <<"Library_descriptor", "LIBRARY_SOURCE">>,
       <<"Library_descriptor", "LIBRARY_SELECTION">> >>

\* The list literal of lines 89-110: run['acc'], then the experiment's fields
RowFields(run, rec) ==
    <<Path(run, <<"acc">>)>> \o
    [i \in 1..Len(ExperimentPaths) |-> Path(rec, ExperimentPaths[i])]

\* CsvRow gone wrong, for C7: every row carries the accession of the first run.
CsvRowFirstRun(run, rec) ==
    LET items  == Subscript(rec, "runs").val.items
        first  == IF items = <<>> THEN run ELSE items[1]
        fields == RowFields(first, rec)
    IN  [exc |-> "", lineno |-> 0,
         row |-> Join([i \in 1..Len(fields) |-> fields[i].val.text])]

\* One pass of the loop body, lines 89-110: the row printed, or the exception
\* and the line that raises it: the first subscript that fails raises, on its
\* own line (run['acc'] is line 90, the experiment's paths lines 91-108);
\* join, line 89, raises TypeError on a field that is no str
CsvRow(run, rec) ==
    LET fields == RowFields(run, rec)
        bad    == {i \in 1..Len(fields) : fields[i].exc /= ""}
        first  == CHOOSE i \in bad : \A j \in bad : i <= j
    IN  IF bad /= {}
        THEN [exc |-> fields[first].exc, lineno |-> 89 + first, row |-> ""]
        ELSE IF \E i \in 1..Len(fields) : fields[i].val.kind /= "str"
        THEN [exc |-> "TypeError", lineno |-> 89, row |-> ""]
        ELSE [exc |-> "", lineno |-> 0,
              row |-> Join([i \in 1..Len(fields) |-> fields[i].val.text])]

\* The passes of `for run in e['runs']`: rows are printed until a row raises
RECURSIVE PrintRuns(_, _, _, _)
PrintRuns(runs, i, rec, lines) ==
    IF i > Len(runs) THEN [exc |-> "", lineno |-> 0, lines |-> lines]
    ELSE LET r == CsvRow(runs[i], rec)
         IN  IF r.exc /= ""
             THEN [exc |-> r.exc, lineno |-> r.lineno, lines |-> lines]
             ELSE PrintRuns(runs, i + 1, rec, Append(lines, r.row))

\* What `for run in v` hands to the loop body: the items of a list, the keys
\* of a dict, the characters of a str. The first character of a str already
\* makes run['acc'] raise, so a non-empty str stands for its characters.
IterItems(v) ==
    IF v.kind = "list" THEN v.items
    ELSE IF v.kind = "dict" THEN [i \in 1..Len(v.map) |-> PyStr(v.map[i][1])]
    ELSE IF v.text = "" THEN <<>>
    ELSE <<PyStr(v.text)>>

\* print_experiment_csv(e): the lines printed, and the exception raised, if
\* any, with the line that raises it. Line 88 raises KeyError without 'runs'
\* and TypeError when e['runs'] is None.
print_experiment_csv(rec) ==
    LET runs == Subscript(rec, "runs")
    IN  IF runs.exc /= ""
        THEN [exc |-> runs.exc, lineno |-> 88, lines |-> <<>>]
        ELSE IF runs.val.kind = "None"
        THEN [exc |-> "TypeError", lineno |-> 88, lines |-> <<>>]
        ELSE PrintRuns(IterItems(runs.val), 1, rec, <<>>)

-----------------------------------------------------------------------------
(* The server's documents: the 'expxml' and 'runs' fragments of one uid of *)
(* an esummary result, as the element sequences the fragments parse to.    *)

Attr(k, v) == <<k, v>>

Run(acc) == Empty("Run", <<Attr("acc", acc), Attr("total_spots", "10")>>)

\* An experiment fragment. platform names the attribute of <Instrument>
\* ("" leaves the element out); libname is the text of <LIBRARY_NAME>.
ExpFragment(acc, platform, libname) ==
    << El("Summary", <<>>, "",
          << Leaf("Title", "t"),
             El("Platform", <<Attr("instrument_model", "m")>>, platform, <<>>),
             Empty("Statistics", <<Attr("total_runs", "1"),
                                   Attr("total_spots", "10"),
                                   Attr("total_bases", "1000"),
                                   Attr("total_size", "5")>>) >>),
       Empty("Submitter", <<Attr("acc", "SRA1"), Attr("center_name", "CN")>>),
       Empty("Experiment", <<Attr("acc", acc), Attr("name", "N")>>),
       Empty("Study", <<Attr("acc", "SRP1"), Attr("name", "S")>>),
       Empty("Organism", <<Attr("taxid", "562"), Attr("ScientificName", "Ec")>>),
       Empty("Sample", <<Attr("acc", "SRS1"), Attr("name", "")>>) >>
    \o (IF platform = "" THEN <<>>
        ELSE <<Empty("Instrument", <<Attr(platform, "m")>>)>>)
    \o << El("Library_descriptor", <<>>, "",
             << Leaf("LIBRARY_NAME", libname),
                Leaf("LIBRARY_STRATEGY", "WGS"),
                Leaf("LIBRARY_SOURCE", "GENOMIC"),
                Leaf("LIBRARY_SELECTION", "RANDOM"),
                El("LIBRARY_LAYOUT", <<>>, "", <<Leaf("PAIRED", "")>>) >>),
          Leaf("Bioproject", "PRJ1"),
          Leaf("Biosample", "SAMN1") >>

\* A fragment that lacks the elements of one tag
Without(fragment, tag) ==
    LET Other(k) == k.tag /= tag IN SelectSeq(fragment, Other)

Doc(expxml, runs) == [expxml |-> expxml, runs |-> runs]

DocIllumina     == Doc(ExpFragment("SRX1", "ILLUMINA", "L"),
                       <<Run("SRR1"), Run("SRR2")>>)
DocLS454        == Doc(ExpFragment("SRX2", "LS454", "L"), <<Run("SRR3")>>)
DocNoInstrument == Doc(ExpFragment("SRX3", "", "L"), <<Run("SRR4")>>)
DocNoLibName    == Doc(ExpFragment("SRX4", "ILLUMINA", ""), <<Run("SRR5")>>)
DocNoRuns       == Doc(ExpFragment("SRX5", "ILLUMINA", "L"), <<>>)
DocNoStudy      == Doc(Without(ExpFragment("SRX6", "ILLUMINA", "L"), "Study"),
                       <<Run("SRR6")>>)

Docs == {DocIllumina, DocLS454, DocNoInstrument, DocNoLibName, DocNoRuns,
         DocNoStudy}

\* The most uids a page of the model lists
MaxUids == 2

SeqsUpTo(S, n) == UNION {[1..k -> S] : k \in 0..n}

\* biosample_data: None, or the decoded JSON: whether it has ['result']['uids']
\* and the documents of the uids, in the order of the uids list
JsonNone        == [kind |-> "None", has_result |-> FALSE, docs |-> <<>>]
JsonResult(ds)  == [kind |-> "dict", has_result |-> TRUE,  docs |-> ds]
JsonNoResult    == [kind |-> "dict", has_result |-> FALSE, docs |-> <<>>]

\* What the server may answer to an esummary request: the status code, whether
\* the body matches '"error":', whether the body decodes as JSON, and the JSON
SummaryResponse(status, marker, decodable, json) ==
    [status |-> status, error_marker |-> marker,
     decodable |-> decodable, json |-> json]

SummaryResponses ==
    {SummaryResponse(200, FALSE, TRUE, JsonResult(ds)) :
        ds \in SeqsUpTo(Docs, MaxUids)}
    \cup {SummaryResponse(200, FALSE, TRUE, JsonNoResult),
          SummaryResponse(200, FALSE, FALSE, JsonNone),
          SummaryResponse(200, TRUE, TRUE, JsonNoResult),
          SummaryResponse(500, FALSE, FALSE, JsonNone)}

\* The pages the server of the model has records for: a request past them is
\* answered with an empty uids list
MaxDataPages == 2

EmptyPage == SummaryResponse(200, FALSE, TRUE, JsonResult(<<>>))

SummaryResponsesAt(pg) ==
    IF pg <= MaxDataPages THEN SummaryResponses ELSE {EmptyPage}

\* What the server may answer to the esearch request
SearchResponses ==
    {[status |-> 200, has_webenv |-> TRUE,  webenv |-> "MCID_1"],
     [status |-> 200, has_webenv |-> TRUE,  webenv |-> ""],
     [status |-> 200, has_webenv |-> FALSE, webenv |-> ""],
     [status |-> 500, has_webenv |-> FALSE, webenv |-> ""]}

\* args.max_samples is an int or a str: the parser declares no type, so it
\* hands over the int default (line 204) or the str that follows -m; a caller
\* of main(args) may pass any int
ArgInt(n) == [kind |-> "int", num |-> n, text |-> ""]
ArgStr(t) == [kind |-> "str", num |-> 0, text |-> t]

DefaultMaxSamples == 5000

\* The values of args.max_samples the model runs main() with
MaxSamplesChoices ==
    {ArgInt(0), ArgInt(499), ArgInt(500), ArgInt(1200),
     ArgInt(DefaultMaxSamples), ArgStr("0"), ArgStr("1200")}

-----------------------------------------------------------------------------
(* main().                                                                 *)

\* The step of range() on line 133 and retmax on line 166
Step   == 500
RetMax == 500

\* Range gone wrong, for C3: the last value before stop is left out when
\* stop - 1 is a multiple of step.
RangeShort(start, stop, step) ==
    [i \in 1..((stop - 1 - start + step - 1) \div step) |-> start + (i - 1) * step]

\* range(start, stop, step) for step > 0, as a sequence
Range(start, stop, step) ==
    [i \in 1..((stop - start + step - 1) \div step) |-> start + (i - 1) * step]

\* intervals, line 133, for an int args.max_samples
intervals == Range(0, max_samples.num + 1, Step)

\* The truth value of None or a str
Truthy(v) == v.kind = "str" /\ v.text /= ""

\* What stdout holds: the header, a data row, or a diagnostic dump. A data row
\* carries where its record was assembled (page, pos), the index of its run
\* in the record, and the page during which it was printed (at).
Out(kind, line, pg, pos, run, at) ==
    [kind |-> kind, line |-> line, page |-> pg, pos |-> pos, run |-> run, at |-> at]

output_fields ==
    <<"run_accession", "bioproject_accession", "experiment_accession",
      "experiment_title", "organism_name", "instrument,submitter",
      "study_accession", "study_title", "sample_accession", "sample_title",
      "total_size_mb", "total_runs", "total_spots", "total_bases",
      "library_name", "library_strategy", "library_source",
      "library_selection">>

\* Keep gone wrong, for C4: every record is kept.
KeepAll(instrument) == TRUE

\* Line 192: "ILLUMINA" in parsed_experiment['Instrument'].keys()
Keep(instrument) == HasKey(instrument.map, "ILLUMINA")

\* Lines 185-192 for one uid: the assembled record, whether it is kept, or
\* the exception raised (KeyError: no 'Run' / no 'Instrument'; AttributeError:
\* 'Instrument' is no dict)
Assemble(doc) ==
    LET parsed_experiment == XmlDictConfig(WrapRoot(doc.expxml))
        parsed_runs       == parse_xml(WrapRoot(doc.runs))
        run               == Subscript(parsed_runs, "Run")
        with_runs         == PyDict(DictSet(parsed_experiment, "runs",
                                            PyList(<<run.val>>)))
        instrument        == Subscript(with_runs, "Instrument")
    IN  IF run.exc /= ""
        THEN [exc |-> run.exc, line |-> 191, rec |-> PyNone, keep |-> FALSE]
        ELSE IF instrument.exc /= ""
        THEN [exc |-> instrument.exc, line |-> 192, rec |-> PyNone, keep |-> FALSE]
        ELSE IF instrument.val.kind /= "dict"
        THEN [exc |-> "AttributeError", line |-> 192, rec |-> PyNone, keep |-> FALSE]
        ELSE [exc |-> "", line |-> 0, rec |-> with_runs,
              keep |-> Keep(instrument.val)]

\* Uids gone wrong, for C10: a payload of None reads as an empty uids list.
UidsNoneIsEmpty(data) == IF data.kind = "None" \/ data.has_result THEN "" ELSE "KeyError"

\* Line 179, biosample_data['result']['uids']: the exception raised, or ""
Uids(data) ==
    IF data.kind = "None" THEN "TypeError"
    ELSE IF ~data.has_result THEN "KeyError"
    ELSE ""

\* Lines 196-197: the records are printed in order until one raises; lineno
\* is the line of print_experiment_csv that raises
RECURSIVE EmitAll(_, _, _, _)
EmitAll(exps, i, at, out) ==
    IF i > Len(exps) THEN [exc |-> "", lineno |-> 0, out |-> out]
    ELSE LET r == print_experiment_csv(exps[i].rec)
             rows == [j \in 1..Len(r.lines) |->
                        Out("row", r.lines[j], exps[i].page, exps[i].pos, j, at)]
         IN  IF r.exc /= ""
             THEN [exc |-> r.exc, lineno |-> r.lineno, out |-> out \o rows]
             ELSE EmitAll(exps, i + 1, at, out \o rows)

pure == <<xml_root, parsed_xml, e, printed>>

\* The variables of SpecXml and SpecCsv while main() runs
Idle ==
    /\ xml_root = Leaf("root", "")
    /\ parsed_xml = PyNone
    /\ e = PyNone
    /\ printed = [exc |-> "", lineno |-> 0, lines |-> <<>>]

\* An uncaught exception: its name and the line that raised it
Uncaught(exc, line) == [exc |-> exc, line |-> line]
NoError == Uncaught("", 0)

Init ==
    /\ pc = "search"
    /\ max_samples \in MaxSamplesChoices
    /\ Idle
    /\ project_query_webenv = PyNone
    /\ biosample_data = JsonNone
    /\ experiments = <<>>
    /\ page = 0
    /\ uid_idx = 0
    /\ requests = <<>>
    /\ stdout = <<>>
    /\ error = NoError
    /\ errorAt = 0

\* Lines 124-129: the esearch call
Search ==
    /\ pc = "search"
    /\ \E resp \in SearchResponses :
        IF resp.status = 200
        THEN IF resp.has_webenv
             THEN /\ project_query_webenv' = PyStr(resp.webenv)
                  /\ pc' = "setup"
                  /\ error' = error
             ELSE /\ project_query_webenv' = project_query_webenv
                  /\ pc' = "crashed"
                  /\ error' = Uncaught("KeyError", 129)
        ELSE /\ project_query_webenv' = project_query_webenv
             /\ pc' = "setup"
             /\ error' = error
    /\ UNCHANGED <<max_samples, biosample_data, experiments, page, uid_idx,
                   requests, stdout, errorAt, pure>>

\* Lines 131-156: the accumulator, the intervals and the header line. On
\* line 133 args.max_samples + 1 raises TypeError for a str, before the
\* header is printed.
Setup ==
    /\ pc = "setup"
    /\ biosample_data' = JsonNone
    /\ experiments' = <<>>
    /\ IF max_samples.kind = "str"
       THEN /\ error' = Uncaught("TypeError", 133)
            /\ pc' = "crashed"
            /\ UNCHANGED <<stdout, page>>
       ELSE /\ stdout' = Append(stdout,
                                Out("header", Join(output_fields), 0, 0, 0, 0))
            /\ page' = 1
            /\ pc' = "for"
            /\ error' = error
    /\ UNCHANGED <<max_samples, project_query_webenv, uid_idx, requests,
                   errorAt, pure>>

\* Line 158: the next retstart of intervals, or the end of the loop
ForRetstart ==
    /\ pc = "for"
    /\ pc' = IF page <= Len(intervals) THEN "request" ELSE "done"
    /\ UNCHANGED <<max_samples, project_query_webenv, biosample_data,
                   experiments, page, uid_idx, requests, stdout, error,
                   errorAt, pure>>

\* Lines 159-176: the esummary request of the page, when there is a webenv
SummaryRequest ==
    /\ pc = "request"
    /\ IF Truthy(project_query_webenv)
       THEN \E resp \in SummaryResponsesAt(page) :
            /\ requests' = Append(requests,
                                  [WebEnv |-> project_query_webenv.text,
                                   retstart |-> intervals[page],
                                   retmax |-> RetMax])
            /\ IF resp.status = 200 /\ ~resp.error_marker
               THEN IF resp.decodable
                    THEN /\ biosample_data' = resp.json
                         /\ pc' = "uids"
                         /\ UNCHANGED <<stdout, errorAt>>
                    ELSE /\ stdout' = stdout \o <<Out("dump", "", 0, 0, 0, page),
                                                 Out("dump", "", 0, 0, 0, page)>>
                         /\ pc' = "exited"
                         /\ UNCHANGED <<biosample_data, errorAt>>
               ELSE /\ errorAt' = IF errorAt = 0 THEN page ELSE errorAt
                    /\ pc' = "uids"
                    /\ UNCHANGED <<biosample_data, stdout>>
       ELSE /\ pc' = "uids"
            /\ UNCHANGED <<requests, biosample_data, stdout, errorAt>>
    /\ UNCHANGED <<max_samples, project_query_webenv, experiments, page,
                   uid_idx, error, pure>>

\* Lines 178-182: the uids of the payload at hand
ReadUids ==
    /\ pc = "uids"
    /\ LET exc == Uids(biosample_data)
       IN  IF exc = "KeyError"
           THEN /\ stdout' = Append(stdout, Out("dump", "", 0, 0, 0, page))
                /\ pc' = "exited"
                /\ UNCHANGED <<error, uid_idx>>
           ELSE IF exc /= ""
           THEN /\ error' = Uncaught(exc, 179)
                /\ pc' = "crashed"
                /\ UNCHANGED <<stdout, uid_idx>>
           ELSE /\ uid_idx' = 1
                /\ pc' = "assemble"
                /\ UNCHANGED <<stdout, error>>
    /\ UNCHANGED <<max_samples, project_query_webenv, biosample_data,
                   experiments, page, requests, errorAt, pure>>

\* Lines 184-193: one pass of the loop over the uids
AssembleRecord ==
    /\ pc = "assemble"
    /\ uid_idx <= Len(biosample_data.docs)
    /\ LET doc == biosample_data.docs[uid_idx]
           a   == Assemble(doc)
       IN  IF a.exc /= ""
           THEN /\ error' = Uncaught(a.exc, a.line)
                /\ pc' = "crashed"
                /\ UNCHANGED <<experiments, uid_idx>>
           ELSE /\ experiments' =
                      IF a.keep
                      THEN Append(experiments,
                                  [rec |-> a.rec, page |-> page,
                                   pos |-> uid_idx, runs_xml |-> doc.runs])
                      ELSE experiments
                /\ uid_idx' = uid_idx + 1
                /\ UNCHANGED <<pc, error>>
    /\ UNCHANGED <<max_samples, project_query_webenv, biosample_data, page,
                   requests, stdout, errorAt, pure>>

\* Lines 196-197: after the last uid, the accumulated records are printed
EmitExperiments ==
    /\ pc = "assemble"
    /\ uid_idx > Len(biosample_data.docs)
    /\ LET r == EmitAll(experiments, 1, page, <<>>)
       IN  /\ stdout' = stdout \o r.out
           /\ IF r.exc /= ""
              THEN /\ error' = Uncaught(r.exc, r.lineno)
                   /\ pc' = "crashed"
                   /\ page' = page
              ELSE /\ error' = error
                   /\ pc' = "for"
                   /\ page' = page + 1
    /\ UNCHANGED <<max_samples, project_query_webenv, biosample_data,
                   experiments, uid_idx, requests, errorAt, pure>>

Next ==
    \/ Search
    \/ Setup
    \/ ForRetstart
    \/ SummaryRequest
    \/ ReadUids
    \/ AssembleRecord
    \/ EmitExperiments

Spec == Init /\ [][Next]_vars

-----------------------------------------------------------------------------
(* SpecXml: parse_xml applied to one XML tree.                             *)

\* The most children the root of a tree of SpecXml has
MaxKids == 3

XmlLeaves ==
    {Leaf("a", "1"), Leaf("b", "2"), Leaf("a", "3"),
     Empty("b", <<Attr("k", "w")>>)}

\* The children of the inner elements: two of a tag; a tag repeated after
\* another; one child; two children with children of their own, the first
\* of mapping shape and the second of list shape; two children of mapping
\* shape, the first with an attribute named like one of its children; two
\* such children, the first holding a child with an attribute named like its
\* own child, the second a tag repeated
XmlInnerKids ==
    {<<Leaf("a", "1"), Leaf("a", "3")>>,
     <<Leaf("a", "1"), Leaf("b", "2"), Leaf("a", "3")>>,
     <<Leaf("b", "2")>>,
     <<El("a", <<>>, "", <<Leaf("a", "1"), Leaf("b", "2")>>),
       El("a", <<>>, "", <<Leaf("b", "2"), Leaf("b", "2")>>)>>,
     <<El("E", <<Attr("a", "v")>>, "", <<Leaf("a", "1"), Leaf("b", "2")>>),
       El("E", <<>>, "", <<Leaf("b", "2")>>)>>,
     <<El("E", <<Attr("a", "v")>>, "",
          <<Leaf("a", "1"),
            El("b", <<Attr("a", "v")>>, "", <<Leaf("a", "3")>>)>>),
       El("E", <<Attr("a", "v")>>, "",
          <<Leaf("b", "2"), Leaf("a", "1"), Leaf("a", "3")>>)>>}

XmlAttrs == {<<>>, <<Attr("a", "v")>>}

XmlInner == {El("E", at, "", ks) : at \in XmlAttrs, ks \in XmlInnerKids}

XmlRoots ==
    {El("root", at, "", ks) :
        at \in XmlAttrs, ks \in SeqsUpTo(XmlLeaves \cup XmlInner, MaxKids)}

\* The variables of main() while a pure function is applied
MainIdle ==
    /\ max_samples = ArgInt(0)
    /\ project_query_webenv = PyNone
    /\ biosample_data = JsonNone
    /\ experiments = <<>>
    /\ page = 0
    /\ uid_idx = 0
    /\ requests = <<>>
    /\ stdout = <<>>
    /\ error = NoError
    /\ errorAt = 0

main_vars == <<max_samples, project_query_webenv, biosample_data, experiments,
               page, uid_idx, requests, stdout, error, errorAt>>

InitXml ==
    /\ pc = "xml"
    /\ xml_root \in XmlRoots
    /\ parsed_xml = PyNone
    /\ e = PyNone
    /\ printed = [exc |-> "", lineno |-> 0, lines |-> <<>>]
    /\ MainIdle

\* parsed_xml = parse_xml(xml_string), lines 80-84
ParseXml ==
    /\ pc = "xml"
    /\ parsed_xml' = parse_xml(xml_root)
    /\ pc' = "xml_done"
    /\ UNCHANGED <<xml_root, e, printed, main_vars>>

SpecXml == InitXml /\ [][ParseXml]_vars

-----------------------------------------------------------------------------
(* SpecCsv: print_experiment_csv applied to one record.                    *)

\* The most runs a record of SpecCsv carries
MaxRuns == 3

\* The values a 'runs' list may hold: runs with an accession, one without
CsvRuns ==
    {PyDict(AttrDict(Run("SRR1"))), PyDict(AttrDict(Run("SRR2"))),
     PyDict(AttrDict(Run("SRR3"))),
     PyDict(<< <<"total_spots", PyStr("10")>> >>)}

\* The values under 'runs': a list of runs, or what is no list: None, an
\* empty or non-empty str, an empty or non-empty dict
CsvRunsValues ==
    {PyList(rs) : rs \in SeqsUpTo(CsvRuns, MaxRuns)}
    \cup {PyNone, PyStr(""), PyStr("SRR1"), PyDict(<<>>),
          PyDict(AttrDict(Run("SRR1")))}

\* The experiment-level parts: complete; without <Instrument>; with an empty
\* <LIBRARY_NAME>; without <Study>
CsvExperiments ==
    {XmlDictConfig(WrapRoot(ExpFragment("SRX1", "ILLUMINA", "L"))),
     XmlDictConfig(WrapRoot(ExpFragment("SRX3", "", "L"))),
     XmlDictConfig(WrapRoot(ExpFragment("SRX4", "ILLUMINA", ""))),
     XmlDictConfig(WrapRoot(Without(ExpFragment("SRX6", "ILLUMINA", "L"),
                                    "Study")))}

\* The records given to print_experiment_csv: an experiment with a value
\* under 'runs', or without the key
CsvRecords ==
    {PyDict(DictSet(x, "runs", v)) : x \in CsvExperiments, v \in CsvRunsValues}
    \cup {PyDict(x) : x \in CsvExperiments}

InitCsv ==
    /\ pc = "csv"
    /\ e \in CsvRecords
    /\ printed = [exc |-> "", lineno |-> 0, lines |-> <<>>]
    /\ xml_root = Leaf("root", "")
    /\ parsed_xml = PyNone
    /\ MainIdle

\* print_experiment_csv(e), lines 87-112
PrintCsv ==
    /\ pc = "csv"
    /\ printed' = print_experiment_csv(e)
    /\ pc' = "csv_done"
    /\ UNCHANGED <<xml_root, parsed_xml, e, main_vars>>

SpecCsv == InitCsv /\ [][PrintCsv]_vars

-----------------------------------------------------------------------------
(* Properties of the run of main() (specification Spec).                   *)

RowIdx == {i \in 1..Len(stdout) : stdout[i].kind = "row"}

\* Where a row comes from: the page and position its record was assembled at
\* and the index of the run
RowKey(o) == <<o.page, o.pos, o.run>>

LexLeq(a, b) ==
    \/ a[1] < b[1]
    \/ a[1] = b[1] /\ a[2] < b[2]
    \/ a[1] = b[1] /\ a[2] = b[2] /\ a[3] <= b[3]

\* C1: once the esummary response of page k is an error (a status other than
\* 200, or a body with the error marker), the run ends at page k: the loop
\* never moves past page k and no data row is printed during page k or later.
C1_FatalAbort ==
    errorAt /= 0 =>
        /\ page = errorAt
        /\ pc /= "done"
        /\ \A i \in RowIdx : stdout[i].at < errorAt

\* C2: the rows printed during a page come only from the records assembled
\* on that page, and no (record, run) occurrence is printed twice.
C2_EmittedOnce ==
    /\ \A i \in RowIdx : stdout[i].page = stdout[i].at
    /\ \A i, j \in RowIdx : i /= j => RowKey(stdout[i]) /= RowKey(stdout[j])

\* The esummary requests of a run with webenv w and maximum sample count m
ExpectedRequests(w, m) ==
    [i \in 1..((m \div 500) + 1) |->
        [WebEnv |-> w, retstart |-> 500 * (i - 1), retmax |-> 500]]

\* C3: with a continuation token and a maximum sample count M >= 0 (an int),
\* the requests issued are at all times a prefix of retstart = 0, 500, 1000,
\* ... <= M with retmax = 500 and the same webenv, and a run that ends without
\* a fatal error has issued exactly floor(M / 500) + 1 of them, whatever the
\* server answered.
C3_Pagination ==
    (Truthy(project_query_webenv) /\ max_samples.kind = "int") =>
        LET want == ExpectedRequests(project_query_webenv.text, max_samples.num)
        IN  /\ Len(requests) <= Len(want)
            /\ requests = SubSeq(want, 1, Len(requests))
            /\ pc = "done" => requests = want

C3_Witness ==
    /\ pc = "done"
    /\ max_samples = ArgInt(1200)
    /\ Truthy(project_query_webenv)
    /\ [i \in 1..Len(requests) |-> requests[i].retstart] = <<0, 500, 1000>>

\* Whether the normalized experiment fragment of a document has an Instrument
\* mapping, and whether that mapping has the key "ILLUMINA"
HasInstrumentMapping(doc) ==
    LET ins == Subscript(parse_xml(WrapRoot(doc.expxml)), "Instrument")
    IN  ins.exc = "" /\ ins.val.kind = "dict"

DocHasIllumina(doc) ==
    /\ HasInstrumentMapping(doc)
    /\ "ILLUMINA" \in
         Keys(Subscript(parse_xml(WrapRoot(doc.expxml)), "Instrument").val.map)

\* C4: every record in the accumulator has the key "ILLUMINA" in its
\* Instrument mapping; of the uids of the page assembled so far, exactly those
\* whose Instrument mapping has the key were appended, in order; a record
\* whose Instrument mapping lacks the key never ends the run; and when a page
\* has been printed, every record of the accumulator has a row printed
\* during that page.
C4_Filter ==
    /\ \A i \in 1..Len(experiments) :
          LET ins == Subscript(experiments[i].rec, "Instrument")
          IN  /\ ins.exc = ""
              /\ ins.val.kind = "dict"
              /\ "ILLUMINA" \in Keys(ins.val.map)
    /\ pc = "assemble" =>
          LET mine == SelectSeq(experiments, LAMBDA x : x.page = page)
              kept == {i \in 1..(uid_idx - 1) :
                          DocHasIllumina(biosample_data.docs[i])}
          IN  /\ {mine[k].pos : k \in 1..Len(mine)} = kept
              /\ Len(mine) = Cardinality(kept)
              /\ \A k \in 1..(Len(mine) - 1) : mine[k].pos < mine[k + 1].pos
    /\ pc = "crashed" /\ error.line = 192 =>
          ~HasInstrumentMapping(biosample_data.docs[uid_idx])
    /\ pc = "for" /\ page > 1 =>
          \A i \in 1..Len(experiments) :
              \E r \in RowIdx :
                  /\ stdout[r].at = page - 1
                  /\ stdout[r].page = experiments[i].page
                  /\ stdout[r].pos = experiments[i].pos

C4_Witness ==
    /\ pc = "assemble"
    /\ biosample_data.docs = <<DocLS454, DocIllumina>>
    /\ uid_idx = 3
    /\ Len(experiments) = 1
    /\ experiments[1].pos = 2

\* C5: the data rows appear in page order, then in uid order within a page,
\* then in run order within a record.
C5_RowOrder ==
    \A i, j \in RowIdx :
        i < j => LexLeq(RowKey(stdout[i]), RowKey(stdout[j]))

\* The value of attribute name of an element
AttrOf(element, name) ==
    element.attrs[CHOOSE i \in 1..Len(element.attrs) :
                     element.attrs[i][1] = name][2]

\* C6: a kept record carries under 'runs' one run per Run element of its
\* run-list fragment, in fragment order, so that flattening it gives one row
\* per Run element.
C6_OneRunPerElement ==
    \A i \in 1..Len(experiments) :
        LET x    == experiments[i]
            runs == Lookup(x.rec.map, "runs").items
            out  == print_experiment_csv(x.rec)
        IN  /\ Len(runs) = Len(x.runs_xml)
            /\ \A k \in 1..Len(runs) :
                  Subscript(runs[k], "acc") = Ok(PyStr(AttrOf(x.runs_xml[k], "acc")))
            /\ out.exc = "" => Len(out.lines) = Len(x.runs_xml)

\* The esearch call is over and left no usable webenv (a status other than
\* 200, or an empty webenv), and the loop has been entered
LoopWithoutToken ==
    /\ pc \notin {"search", "setup"}
    /\ error.line \notin {129, 133}
    /\ ~Truthy(project_query_webenv)

\* C10: without a continuation token the run ends on the first page with no
\* data row printed: it never reaches the assembly of a record nor the end of
\* the loop, and the exception that ends it is raised reading the payload.
C10_NoToken ==
    LoopWithoutToken =>
        /\ page = 1
        /\ RowIdx = {}
        /\ pc \in {"for", "request", "uids", "crashed"}
        /\ pc = "crashed" => error = Uncaught("TypeError", 179)

C10_Witness ==
    /\ pc = "crashed"
    /\ project_query_webenv = PyNone
    /\ page = 1
    /\ error = Uncaught("TypeError", 179)
    /\ RowIdx = {}

-----------------------------------------------------------------------------
(* Properties of print_experiment_csv (specification SpecCsv).             *)

\* Every path of a row leads to a str, for the record and each of its runs
CsvComplete(rec) ==
    /\ \A i \in 1..Len(ExperimentPaths) :
          LET f == Path(rec, ExperimentPaths[i])
          IN  f.exc = "" /\ f.val.kind = "str"
    /\ LET runs == Subscript(rec, "runs")
       IN  /\ runs.exc = ""
           /\ runs.val.kind = "list"
           /\ \A k \in 1..Len(runs.val.items) :
                 LET acc == Subscript(runs.val.items[k], "acc")
                 IN  acc.exc = "" /\ acc.val.kind = "str"

ExperimentFields(rec) ==
    [i \in 1..Len(ExperimentPaths) |-> Path(rec, ExperimentPaths[i]).val.text]

\* C7: for a record with n runs and every required path present, n rows are
\* printed, in the order of 'runs'; row k is the accession of run k followed
\* by the experiment-level fields, which are the same in every row.
C7_FanOut ==
    (pc = "csv_done" /\ CsvComplete(e)) =>
        LET runs == Lookup(e.map, "runs").items
        IN  /\ printed.exc = ""
            /\ Len(printed.lines) = Len(runs)
            /\ \A k \in 1..Len(runs) :
                  printed.lines[k] =
                      Join(<<Lookup(runs[k].map, "acc").text>>
                           \o ExperimentFields(e))

C7_Witness ==
    /\ pc = "csv_done"
    /\ CsvComplete(e)
    /\ Len(Lookup(e.map, "runs").items) = 2
    /\ Len(printed.lines) = 2
    /\ printed.lines[1] /= printed.lines[2]

-----------------------------------------------------------------------------
(* Properties of parse_xml (specification SpecXml).                        *)

Tags(kids) == {kids[i].tag : i \in 1..Len(kids)}

LastWithTag(kids, t) ==
    kids[CHOOSE i \in 1..Len(kids) :
            /\ kids[i].tag = t
            /\ \A j \in (i + 1)..Len(kids) : kids[j].tag /= t]

\* The children of the root whose value the root's mapping holds
NestedKids ==
    {LastWithTag(xml_root.kids, t) : t \in Tags(xml_root.kids)}

ListShaped(element) ==
    /\ Len(element.kids) >= 2
    /\ element.kids[1].tag = element.kids[2].tag

MappingShaped(element) ==
    \/ Len(element.kids) = 1
    \/ Len(element.kids) >= 2 /\ element.kids[1].tag /= element.kids[2].tag

\* v is a mapping in which the shared tag maps to a list with one entry per
\* child, in document order, the entry of a leaf child being its text
ListUnderSharedTag(element, v) ==
    LET t == element.kids[1].tag
    IN  /\ v.kind = "dict"
        /\ HasKey(v.map, t)
        /\ Lookup(v.map, t).kind = "list"
        /\ Len(Lookup(v.map, t).items) = Len(element.kids)
        /\ \A i \in 1..Len(element.kids) :
              (element.kids[i].kids = <<>> /\ element.kids[i].attrs = <<>>)
                  => Lookup(v.map, t).items[i] = TextValue(element.kids[i].text)

\* C8: an element given to the normalizer, the root included, whose first two
\* children share a tag t normalizes to a mapping in which t maps to the list
\* of the children's values, a leaf child giving its text.
C8_ListShape ==
    pc = "xml_done" =>
        /\ ListShaped(xml_root) => ListUnderSharedTag(xml_root, parsed_xml)
        /\ \A k \in NestedKids :
              ListShaped(k) =>
                  ListUnderSharedTag(k, Lookup(parsed_xml.map, k.tag))

Entries(m, k) == Cardinality({i \in 1..Len(m) : m[i][1] = k})

AttrNames(element) == {element.attrs[i][1] : i \in 1..Len(element.attrs)}

\* v has one entry per child tag, holding the value of the last such child
LastChildWins(element, v) ==
    /\ v.kind = "dict"
    /\ \A t \in Tags(element.kids) :
          /\ Entries(v.map, t) = 1
          /\ Lookup(v.map, t) = ChildValue(LastWithTag(element.kids, t))

\* The same, except that an attribute of the element named like a child tag
\* holds the entry
LastChildWinsUnlessAttr(element, v) ==
    /\ v.kind = "dict"
    /\ \A t \in Tags(element.kids) :
          /\ Entries(v.map, t) = 1
          /\ Lookup(v.map, t) =
                IF t \in AttrNames(element)
                THEN PyStr(AttrOf(element, t))
                ELSE ChildValue(LastWithTag(element.kids, t))

\* C9 as claimed: a mapping built from an element's children has exactly one
\* entry per distinct child tag, holding the value of the last child with
\* that tag.
C9_LastWins ==
    pc = "xml_done" =>
        /\ MappingShaped(xml_root) => LastChildWins(xml_root, parsed_xml)
        /\ \A k \in NestedKids :
              MappingShaped(k) =>
                  LastChildWins(k, Lookup(parsed_xml.map, k.tag))

\* Every mapping built from the children of an element at or below `element`
\* is as C9 amended says, v being the value the normalizer gives the element.
\* how tells which code built v: "root" is parse_xml's XmlDictConfig(root),
\* "item" an entry of a list (lines 18-24), "stored" the value the loop over
\* a mapping's children stores under the element's tag (lines 52-77).
RECURSIVE MappingsAsAmended(_, _, _)
MappingsAsAmended(element, v, how) ==
    IF element.kids = <<>> THEN TRUE
    ELSE IF how = "root" \/ MappingShaped(element)
    THEN /\ MappingShaped(element) =>
                IF how = "stored"
                THEN LastChildWinsUnlessAttr(element, v)
                ELSE LastChildWins(element, v)
         /\ \A t \in Tags(element.kids) :
               (how = "stored" /\ t \in AttrNames(element))
               \/ MappingsAsAmended(LastWithTag(element.kids, t),
                                    Lookup(v.map, t), "stored")
    ELSE LET t     == element.kids[1].tag
             items == IF how = "item" THEN v.items
                      ELSE Lookup(v.map, t).items
         IN  \/ how = "stored" /\ t \in AttrNames(element)
             \/ \A i \in 1..Len(element.kids) :
                   MappingsAsAmended(element.kids[i], items[i], "item")

\* C9 as amended: a mapping built from an element's children has one entry
\* per distinct child tag. At the root handed to parse_xml and in an element
\* that is an entry of a list, the entry holds the value of the last child
\* with that tag; in an element stored under its tag by the loop over a
\* mapping's children, it holds that value unless the element has an
\* attribute of that name, whose value then holds the entry. Checked for the
\* root and every element below it.
C9_LastWinsUnlessAttr ==
    pc = "xml_done" => MappingsAsAmended(xml_root, parsed_xml, "root")

\* A list entry with an attribute named like its child keeps the child's
\* value, next to a stored element in which the attribute holds the entry
C9_Witness ==
    /\ pc = "xml_done"
    /\ xml_root.attrs = <<>>
    /\ xml_root.kids =
          <<Leaf("a", "1"), Leaf("b", "2"),
            El("E", <<Attr("a", "v")>>, "",
               <<El("E", <<Attr("a", "v")>>, "",
                    <<Leaf("a", "1"), Leaf("b", "2")>>),
                 El("E", <<>>, "", <<Leaf("b", "2")>>)>>)>>
    /\ parsed_xml =
          PyDict(<< <<"a", PyStr("1")>>, <<"b", PyStr("2")>>,
                    <<"E", PyDict(<< <<"E", PyList(<<
                              PyDict(<< <<"a", PyStr("1")>>,
                                        <<"b", PyStr("2")>> >>),
                              PyDict(<< <<"b", PyStr("2")>> >>) >>)>>,
                                     <<"a", PyStr("v")>> >>)>> >>)

====
